---- MODULE Spec2Model ----
(***************************************************************************)
(* qutebrowser/utils/resources.py: resolution, enumeration, preloading and *)
(* reading of the resource files bundled with qutebrowser.                 *)
(*                                                                         *)
(* A str is a sequence of one-character strings, bytes and decoded text    *)
(* are sequences of integers.  The resource tree is the directory (or zip  *)
(* archive) that _resource_path('') designates in the mode in effect.      *)
(***************************************************************************)
EXTENDS Integers, Sequences, FiniteSets, TLC

VARIABLES
    mode,             \* how the process is deployed: the branch of _resource_path
    tree,             \* the entries of the resource tree that change: path -> node
    changes,          \* how often the environment has modified the tree
    _resource_cache,  \* the module-level dict: name (str) -> text
    result            \* the call that has just ended and its outcome, NoCall between calls

vars == <<mode, tree, changes, _resource_cache, result>>

(***************************************************************************)
(* Bounds                                                                  *)
(***************************************************************************)
\* The environment modifies the resource tree at most this many times.
MaxTreeChanges == 4

(***************************************************************************)
(* Strings                                                                 *)
(***************************************************************************)
sep == "/"
pardir == <<".", ".">>
curdir == <<".">>

html == <<"h", "t", "m", "l">>
javascript == <<"j", "a", "v", "a", "s", "c", "r", "i", "p", "t">>
quirks == <<"q", "u", "i", "r", "k", "s">>
javascript_quirks == javascript \o <<sep>> \o quirks
ext_html == <<".", "h", "t", "m", "l">>
ext_js == <<".", "j", "s">>

\* str.startswith / str.endswith
startswith(s, prefix) ==
    /\ Len(prefix) <= Len(s)
    /\ SubSeq(s, 1, Len(prefix)) = prefix

endswith(s, suffix) ==
    /\ Len(suffix) <= Len(s)
    /\ SubSeq(s, Len(s) - Len(suffix) + 1, Len(s)) = suffix

\* c in s, for a character c
contains(s, c) == \E i \in 1..Len(s) : s[i] = c

\* s.split(posixpath.sep): the pieces between the separators, empty pieces kept
RECURSIVE split(_)
split(s) ==
    IF ~contains(s, sep) THEN <<s>>
    ELSE LET i == CHOOSE k \in 1..Len(s) :
                      /\ s[k] = sep
                      /\ \A j \in 1..(k - 1) : s[j] # sep
         IN  <<SubSeq(s, 1, i - 1)>> \o split(SubSeq(s, i + 1, Len(s)))

\* posixpath.isabs
isabs(s) == startswith(s, <<sep>>)

\* posixpath.join(a, b)
posixpath_join(a, b) ==
    IF isabs(b) THEN b
    ELSE IF a = <<>> \/ endswith(a, <<sep>>) THEN a \o b
    ELSE a \o <<sep>> \o b

\* '/'.join(parts)
RECURSIVE joinparts(_)
joinparts(parts) ==
    IF parts = <<>> THEN <<>>
    ELSE IF Len(parts) = 1 THEN parts[1]
    ELSE parts[1] \o <<sep>> \o joinparts(Tail(parts))

\* The parts pathlib keeps of a relative path: empty and '.' pieces are dropped.
RECURSIVE dropempty(_)
dropempty(parts) ==
    IF parts = <<>> THEN <<>>
    ELSE IF parts[1] = <<>> \/ parts[1] = curdir THEN dropempty(Tail(parts))
    ELSE <<parts[1]>> \o dropempty(Tail(parts))

pathparts(s) == dropempty(split(s))

\* fnmatch of a file name against a glob pattern: '*' matches any run of
\* characters, '?' any one character, every other character itself.
RECURSIVE fnmatch(_, _)
fnmatch(name, pat) ==
    IF pat = <<>> THEN name = <<>>
    ELSE IF pat[1] = "*"
         THEN \/ fnmatch(name, Tail(pat))
              \/ name # <<>> /\ fnmatch(Tail(name), pat)
    ELSE IF name = <<>> THEN FALSE
    ELSE /\ pat[1] = "?" \/ pat[1] = name[1]
         /\ fnmatch(Tail(name), Tail(pat))

(***************************************************************************)
(* The resource tree and the bytes in it                                   *)
(***************************************************************************)
s_log_html == <<"l", "o", "g">> \o ext_html
s_back_html == <<"b", "a", "c", "k">> \o ext_html
s_c_html == <<"c">> \o ext_html
s_notes_txt == <<"n", "o", "t", "e", "s", ".", "t", "x", "t">>
s_sub == <<"s", "u", "b">>
s_a_js == <<"a">> \o ext_js
s_foo_js == <<"f", "o", "o">> \o ext_js
s_favicon_png == <<"f", "a", "v", "i", "c", "o", "n", ".", "p", "n", "g">>
s_missing == <<"m", "i", "s", "s", "i", "n", "g">>
s_nope_html == <<"n", "o", "p", "e">> \o ext_html

html_log_html == html \o <<sep>> \o s_log_html
html_back_html == html \o <<sep>> \o s_back_html
html_notes_txt == html \o <<sep>> \o s_notes_txt
html_sub == html \o <<sep>> \o s_sub
html_sub_c_html == html_sub \o <<sep>> \o s_c_html
javascript_a_js == javascript \o <<sep>> \o s_a_js
javascript_quirks_foo_js == javascript_quirks \o <<sep>> \o s_foo_js

\* File contents: "a" and "b\r\n" for the text files, the head of a PNG
\* (which is no UTF-8) for the icon.
bytes_a == <<97>>
bytes_crlf == <<98, 13, 10>>
bytes_png == <<137, 80, 13, 10>>

Absent == [kind |-> "absent", data |-> <<>>]
Dir == [kind |-> "dir", data |-> <<>>]
File(data) == [kind |-> "file", data |-> data]

\* The part of the tree that stays as installed.
StaticTree ==
    (html :> Dir) @@ (html_back_html :> File(bytes_a))
    @@ (html_notes_txt :> File(bytes_a))
    @@ (html_sub :> Dir) @@ (html_sub_c_html :> File(bytes_a))
    @@ (javascript :> Dir)
    @@ (s_favicon_png :> File(bytes_png))

\* The part the environment changes, as installed.
InstalledTree ==
    (html_log_html :> File(bytes_a)) @@ (javascript_a_js :> File(bytes_a))
    @@ (javascript_quirks :> Dir)
    @@ (javascript_quirks_foo_js :> File(bytes_a))

\* What the environment may write, remove or turn into a directory.
ChangeablePaths ==
    {html_log_html, javascript_a_js, javascript_quirks, javascript_quirks_foo_js}
WritableContents == {bytes_a, bytes_crlf}

node(tr, p) == IF p \in DOMAIN tr THEN tr[p] ELSE Absent

\* posixpath.dirname / posixpath.basename of a path without trailing separator
dirname(p) == LET parts == split(p) IN joinparts(SubSeq(parts, 1, Len(parts) - 1))
basename(p) == LET parts == split(p) IN parts[Len(parts)]

is_dir_at(tr, p) == p = <<>> \/ node(tr, p).kind = "dir"

\* The entries directly inside directory d.
children(tr, d) ==
    {p \in DOMAIN tr : tr[p].kind # "absent" /\ dirname(p) = d}

(***************************************************************************)
(* Decoding: open(..., encoding='utf-8') in text mode                      *)
(***************************************************************************)
\* Every byte of the model below 128 is one ASCII character; the bytes from
\* 128 on occur only alone, where they are not valid UTF-8.
valid_utf8(data) == \A i \in 1..Len(data) : data[i] < 128

\* Universal newlines: "\r\n" and "\r" are read as "\n".
RECURSIVE translate_newlines(_)
translate_newlines(t) ==
    IF t = <<>> THEN <<>>
    ELSE IF t[1] = 13
         THEN IF Len(t) >= 2 /\ t[2] = 10
              THEN <<10>> \o translate_newlines(SubSeq(t, 3, Len(t)))
              ELSE <<10>> \o translate_newlines(Tail(t))
    ELSE <<t[1]>> \o translate_newlines(Tail(t))

decode(data) == translate_newlines(data)

(***************************************************************************)
(* Resource handles: pathlib.Path (a directory) and zipfile.Path (an       *)
(* archive), as far as the module uses them                                *)
(***************************************************************************)
Modes == {"frozen", "package_dir", "package_zip"}

\* zipfile.Path signals a missing member with KeyError up to Python 3.9 and
\* with FileNotFoundError from 3.10 on.
PyVersions == {"py39", "py310"}

Handle(backing, root, at) == [backing |-> backing, root |-> root, at |-> at]
NoHandle == Handle("none", "none", <<>>)

Raised(kind) == [kind |-> kind, data |-> <<>>]
Returned(data) == [kind |-> "ok", data |-> data]

\* pathlib: path / filename, for a relative filename
pathlib_joinpath(path, filename) ==
    Handle(path.backing, path.root,
           joinparts(pathparts(path.at) \o pathparts(filename)))

\* The names of the archive: a file by its path, a directory by its path
\* and a trailing separator.
zip_namelist(tr) ==
    {p \in DOMAIN tr : tr[p].kind = "file"}
    \cup {p \o <<sep>> : p \in {q \in DOMAIN tr : tr[q].kind = "dir"}}

\* zipfile.CompleteDirs.resolve_dir
resolve_dir(tr, name) ==
    IF name \notin zip_namelist(tr) /\ (name \o <<sep>>) \in zip_namelist(tr)
    THEN name \o <<sep>>
    ELSE name

\* zipfile.Path.joinpath
zip_joinpath(tr, path, add) ==
    Handle(path.backing, path.root, resolve_dir(tr, posixpath_join(path.at, add)))

\* zipfile.Path.is_dir
zip_is_dir(path) == path.at = <<>> \/ endswith(path.at, <<sep>>)

rstrip_sep(s) == IF endswith(s, <<sep>>) THEN SubSeq(s, 1, Len(s) - 1) ELSE s

\* pathlib.Path.read_bytes on the directory tree: the operating system walks
\* the path, one component after the other.
dir_read_bytes(tr, path) ==
    LET parts == pathparts(path.at)
        prefix(i) == joinparts(SubSeq(parts, 1, i))
        blocked == {i \in 1..(Len(parts) - 1) : node(tr, prefix(i)).kind # "dir"}
        first == CHOOSE i \in blocked : \A j \in blocked : i <= j
        n == node(tr, joinparts(parts))
    IN  IF parts = <<>> THEN Raised("IsADirectoryError")
        ELSE IF blocked # {}
             THEN IF node(tr, prefix(first)).kind = "absent"
                  THEN Raised("FileNotFoundError")
                  ELSE Raised("NotADirectoryError")
        ELSE IF n.kind = "absent" THEN Raised("FileNotFoundError")
        ELSE IF n.kind = "dir" THEN Raised("IsADirectoryError")
        ELSE Returned(n.data)

\* zipfile.Path.read_bytes: the member is looked up by its full name.  Up to
\* Python 3.9 every failed lookup is ZipFile.open's KeyError; from 3.10 on
\* zipfile.Path.open raises IsADirectoryError or FileNotFoundError itself.
zip_read_bytes(tr, py, path) ==
    IF path.at \in DOMAIN tr /\ tr[path.at].kind = "file"
    THEN Returned(tr[path.at].data)
    ELSE IF py = "py39" THEN Raised("KeyError")
    ELSE IF zip_is_dir(path) THEN Raised("IsADirectoryError")
    ELSE Raised("FileNotFoundError")

\* path.read_bytes()
read_bytes(tr, py, path) ==
    IF path.backing = "zip" THEN zip_read_bytes(tr, py, path)
    ELSE dir_read_bytes(tr, path)

\* path.read_text(encoding='utf-8')
read_text(tr, py, path) ==
    LET r == read_bytes(tr, py, path)
    IN  IF r.kind # "ok" THEN r
        ELSE IF ~valid_utf8(r.data) THEN Raised("UnicodeDecodeError")
        ELSE Returned(decode(r.data))

(***************************************************************************)
(* resources.py                                                            *)
(***************************************************************************)
\* importlib_resources.files(qutebrowser)
files_qutebrowser(md) ==
    IF md = "package_zip" THEN Handle("zip", "package", <<>>)
    ELSE Handle("dir", "package", <<>>)

\* pathlib.Path(sys.executable).parent
executable_parent == Handle("dir", "executable", <<>>)

\* isinstance(resource_path, pathlib.Path)
is_pathlib_Path(path) == path.backing = "dir"

\* path / filename
joinpath(tr, path, filename) ==
    IF is_pathlib_Path(path) THEN pathlib_joinpath(path, filename)
    ELSE zip_joinpath(tr, path, filename)

\* _resource_path without the assertion on os.path.pardir
_resource_path_pardir_unchecked(md, tr, filename) ==
    IF isabs(filename)
    THEN [kind |-> "AssertionError", path |-> NoHandle]
    ELSE IF md = "frozen"
    THEN [kind |-> "ok", path |-> joinpath(tr, executable_parent, filename)]
    ELSE [kind |-> "ok", path |-> joinpath(tr, files_qutebrowser(md), filename)]

\* _resource_path(filename): [kind, path]
_resource_path(md, tr, filename) ==
    IF isabs(filename)
    THEN [kind |-> "AssertionError", path |-> NoHandle]
    ELSE IF LET pieces == split(filename)
            IN  \E i \in 1..Len(pieces) : pieces[i] = pardir
    THEN [kind |-> "AssertionError", path |-> NoHandle]
    ELSE IF md = "frozen"
    THEN [kind |-> "ok", path |-> joinpath(tr, executable_parent, filename)]
    ELSE [kind |-> "ok", path |-> joinpath(tr, files_qutebrowser(md), filename)]

\* The body without the workaround around it.
no_keyerror_workaround(r) == r

\* with _resource_keyerror_workaround(): ...
_resource_keyerror_workaround(r) ==
    IF r.kind = "KeyError" THEN Raised("FileNotFoundError") ELSE r

\* full_path.relative_to(resource_path).as_posix()
relative_to(full_path, resource_path) ==
    IF resource_path.at = <<>> THEN full_path
    ELSE SubSeq(full_path, Len(resource_path.at) + 2, Len(full_path))

\* _glob_resources(resource_path, subdir, ext): [kind, names], names the
\* set of the names it yields
_glob_resources(tr, resource_path, subdir, ext) ==
    LET path == joinpath(tr, resource_path, subdir)
    IN  IF contains(ext, "*") THEN [kind |-> "AssertionError", names |-> {}]
        ELSE IF ~startswith(ext, <<".">>)
        THEN [kind |-> "AssertionError", names |-> {}]
        ELSE IF is_pathlib_Path(resource_path)
        THEN [kind |-> "ok",
              names |-> IF is_dir_at(tr, path.at)
                        THEN {relative_to(full_path, resource_path) :
                                  full_path \in {q \in children(tr, path.at) :
                                      fnmatch(basename(q), <<"*">> \o ext)}}
                        ELSE {}]
        ELSE IF ~zip_is_dir(path)
        THEN [kind |-> "AssertionError", names |-> {}]
        ELSE [kind |-> "ok",
              names |-> {posixpath_join(subdir, basename(subpath)) :
                            subpath \in {q \in children(tr, rstrip_sep(path.at)) :
                                             endswith(basename(q), ext)}}]

\* read_file without the lookup in the cache
read_file_uncached(cache, md, tr, py, filename) ==
    LET rp == _resource_path(md, tr, filename)
    IN  IF rp.kind # "ok" THEN Raised(rp.kind)
        ELSE _resource_keyerror_workaround(read_text(tr, py, rp.path))

\* read_file(filename): [kind, data]
read_file(cache, md, tr, py, filename) ==
    IF filename \in DOMAIN cache THEN Returned(cache[filename])
    ELSE LET rp == _resource_path(md, tr, filename)
         IN  IF rp.kind # "ok" THEN Raised(rp.kind)
             ELSE _resource_keyerror_workaround(read_text(tr, py, rp.path))

\* read_file_binary that returns a cached entry, as read_file does
read_file_binary_cached(cache, md, tr, py, filename) ==
    IF filename \in DOMAIN cache THEN Returned(cache[filename])
    ELSE LET rp == _resource_path(md, tr, filename)
         IN  IF rp.kind # "ok" THEN Raised(rp.kind)
             ELSE _resource_keyerror_workaround(read_bytes(tr, py, rp.path))

\* read_file_binary(filename): [kind, data].  The module-level cache is in
\* its scope like in read_file's; the body does not name it.
read_file_binary(cache, md, tr, py, filename) ==
    LET rp == _resource_path(md, tr, filename)
    IN  IF rp.kind # "ok" THEN Raised(rp.kind)
        ELSE _resource_keyerror_workaround(read_bytes(tr, py, rp.path))

\* _resource_cache[name] = value
setitem(cache, name, value) ==
    [n \in DOMAIN cache \cup {name} |-> IF n = name THEN value ELSE cache[n]]

\* load_names, caching the bytes of the file instead of its text
RECURSIVE load_names_bytes(_, _, _, _, _)
load_names_bytes(cache, md, tr, py, yielded) ==
    IF yielded = <<>> THEN [kind |-> "ok", cache |-> cache]
    ELSE LET r == read_file_binary(cache, md, tr, py, Head(yielded))
         IN  IF r.kind # "ok" THEN [kind |-> r.kind, cache |-> cache]
             ELSE load_names_bytes(setitem(cache, Head(yielded), r.data),
                                   md, tr, py, Tail(yielded))

\* for name in <names, in the order yielded>:
\*     _resource_cache[name] = read_file(name)
RECURSIVE load_names(_, _, _, _, _)
load_names(cache, md, tr, py, yielded) ==
    IF yielded = <<>> THEN [kind |-> "ok", cache |-> cache]
    ELSE LET r == read_file(cache, md, tr, py, Head(yielded))
         IN  IF r.kind # "ok" THEN [kind |-> r.kind, cache |-> cache]
             ELSE load_names(setitem(cache, Head(yielded), r.data),
                             md, tr, py, Tail(yielded))

\* The list preload_resources walks.
PreloadPairs ==
    << <<html, ext_html>>, <<javascript, ext_js>>, <<javascript_quirks, ext_js>> >>

\* The orders in which a listing may yield the names of S.
Orders(S) ==
    {o \in [1..Cardinality(S) -> S] : \A i, j \in DOMAIN o : o[i] = o[j] => i = j}

\* What the i-th enumeration of preload_resources lists.
preload_listing(md, tr, i) ==
    _glob_resources(tr, _resource_path(md, tr, <<>>).path,
                    PreloadPairs[i][1], PreloadPairs[i][2])

\* preload_resources(), from its i-th pair on; yields[i] is the order in
\* which the i-th enumeration yields its names: [kind, cache]
RECURSIVE preload_from(_, _, _, _, _, _)
preload_from(i, cache, md, tr, py, yields) ==
    IF i > Len(PreloadPairs) THEN [kind |-> "ok", cache |-> cache]
    ELSE LET g == preload_listing(md, tr, i)
             r == load_names(cache, md, tr, py, yields[i])
         IN  IF g.kind # "ok" THEN [kind |-> g.kind, cache |-> cache]
             ELSE IF r.kind # "ok" THEN r
             ELSE preload_from(i + 1, r.cache, md, tr, py, yields)

\* preload_resources that empties the cache before it fills it
preload_resources_clearing(cache, md, tr, py, yields) ==
    preload_from(1, [n \in {} |-> <<>>], md, tr, py, yields)

preload_resources(cache, md, tr, py, yields) ==
    preload_from(1, cache, md, tr, py, yields)

(***************************************************************************)
(* The calls and the environment                                           *)
(***************************************************************************)
s_x == <<"x">>
html_log_html_x == html_log_html \o <<sep>> \o s_x
missing_nope_html == s_missing \o <<sep>> \o s_nope_html
abs_html_log_html == <<sep>> \o html_log_html
html_pardir_html_log_html == html \o <<sep>> \o pardir \o <<sep>> \o html_log_html
ext_j_any == <<".", "j", "?">>

\* The names the readers are called with.
ReaderNames ==
    {html_log_html, javascript_a_js, javascript_quirks_foo_js, html_sub_c_html,
     s_favicon_png, missing_nope_html, html_log_html_x,
     abs_html_log_html, html_pardir_html_log_html}

\* The arguments _glob_resources is called with.
GlobSubdirs == {html, javascript, javascript_quirks}
GlobExts == {ext_html, ext_js, ext_j_any}

\* The whole resource tree.
resource_tree == StaticTree @@ tree

EmptyCache == [n \in {} |-> <<>>]

NoCall ==
    [op |-> "none", arg |-> <<>>, ext |-> <<>>, kind |-> "ok",
     data |-> <<>>, names |-> {}]

Call(op, arg, ext, kind, data, names) ==
    [op |-> op, arg |-> arg, ext |-> ext, kind |-> kind,
     data |-> data, names |-> names]

Init ==
    /\ mode \in Modes
    /\ tree = InstalledTree
    /\ changes = 0
    /\ _resource_cache = EmptyCache
    /\ result = NoCall

\* read_file that stores what it has read in the cache
call_read_file_filling(filename) ==
    /\ result = NoCall
    /\ \E py \in PyVersions :
          LET r == read_file(_resource_cache, mode, resource_tree, py, filename)
          IN  /\ result' = Call("read_file", filename, <<>>, r.kind, r.data, {})
              /\ _resource_cache' =
                     IF r.kind = "ok" THEN setitem(_resource_cache, filename, r.data)
                     ELSE _resource_cache
    /\ UNCHANGED <<mode, tree, changes>>

call_read_file(filename) ==
    /\ result = NoCall
    /\ \E py \in PyVersions :
          LET r == read_file(_resource_cache, mode, resource_tree, py, filename)
          IN  result' = Call("read_file", filename, <<>>, r.kind, r.data, {})
    /\ UNCHANGED <<mode, tree, changes, _resource_cache>>

call_read_file_binary(filename) ==
    /\ result = NoCall
    /\ \E py \in PyVersions :
          LET r == read_file_binary(_resource_cache, mode, resource_tree, py, filename)
          IN  result' = Call("read_file_binary", filename, <<>>, r.kind, r.data, {})
    /\ UNCHANGED <<mode, tree, changes, _resource_cache>>

call_glob_resources(subdir, ext) ==
    /\ result = NoCall
    /\ LET g == _glob_resources(resource_tree, _resource_path(mode, resource_tree, <<>>).path,
                                subdir, ext)
       IN  result' = Call("_glob_resources", subdir, ext, g.kind, <<>>, g.names)
    /\ UNCHANGED <<mode, tree, changes, _resource_cache>>

call_preload_resources ==
    /\ result = NoCall
    /\ \E py \in PyVersions :
       \E y1 \in Orders(preload_listing(mode, resource_tree, 1).names) :
       \E y2 \in Orders(preload_listing(mode, resource_tree, 2).names) :
       \E y3 \in Orders(preload_listing(mode, resource_tree, 3).names) :
          LET r == preload_resources(_resource_cache, mode, resource_tree, py, <<y1, y2, y3>>)
          IN  /\ _resource_cache' = r.cache
              /\ result' = Call("preload_resources", <<>>, <<>>, r.kind, <<>>, {})
    /\ UNCHANGED <<mode, tree, changes>>

\* The caller has the outcome of its call and goes on.
caller_continues ==
    /\ result # NoCall
    /\ result' = NoCall
    /\ UNCHANGED <<mode, tree, changes, _resource_cache>>

\* The environment: between two calls a file of the tree is written or
\* removed, or a directory made or removed.
WritablePaths == {html_log_html, javascript_a_js, javascript_quirks_foo_js}
DirectoryPaths == {html_log_html, javascript_quirks}

env_write_file(p, data) ==
    /\ result = NoCall
    /\ changes < MaxTreeChanges
    /\ is_dir_at(resource_tree, dirname(p))
    /\ node(resource_tree, p).kind # "dir"
    /\ node(resource_tree, p) # File(data)
    /\ tree' = [tree EXCEPT ![p] = File(data)]
    /\ changes' = changes + 1
    /\ UNCHANGED <<mode, _resource_cache, result>>

env_remove(p) ==
    /\ result = NoCall
    /\ changes < MaxTreeChanges
    /\ node(resource_tree, p).kind # "absent"
    /\ children(resource_tree, p) = {}
    /\ tree' = [tree EXCEPT ![p] = Absent]
    /\ changes' = changes + 1
    /\ UNCHANGED <<mode, _resource_cache, result>>

env_mkdir(p) ==
    /\ result = NoCall
    /\ changes < MaxTreeChanges
    /\ node(resource_tree, p).kind = "absent"
    /\ is_dir_at(resource_tree, dirname(p))
    /\ tree' = [tree EXCEPT ![p] = Dir]
    /\ changes' = changes + 1
    /\ UNCHANGED <<mode, _resource_cache, result>>

Next ==
    \/ \E filename \in ReaderNames : call_read_file(filename)
    \/ \E filename \in ReaderNames : call_read_file_binary(filename)
    \/ \E subdir \in GlobSubdirs, ext \in GlobExts : call_glob_resources(subdir, ext)
    \/ call_preload_resources
    \/ caller_continues
    \/ \E p \in WritablePaths, data \in WritableContents : env_write_file(p, data)
    \/ \E p \in ChangeablePaths : env_remove(p)
    \/ \E p \in DirectoryPaths : env_mkdir(p)

Spec == Init /\ [][Next]_vars

(***************************************************************************)
(* Vocabulary of the properties                                            *)
(***************************************************************************)
\* A name that is absolute or has a parent-directory piece.
InvalidName(name) ==
    \/ name # <<>> /\ name[1] = sep
    \/ \E i \in 1..Len(split(name)) : split(name)[i] = pardir

\* The names the three enumerations of preload_resources yield on tr.
EnumeratedNames(md, tr) ==
    UNION {preload_listing(md, tr, i).names : i \in 1..Len(PreloadPairs)}

\* A text read of the name from the tree, past the cache.
direct_read_text(md, tr, py, name) ==
    _resource_keyerror_workaround(
        read_text(tr, py, _resource_path(md, tr, name).path))

ReaderOps == {"read_file", "read_file_binary"}

\* A step that is one whole call of preload_resources / of a reader.
PreloadStep == result = NoCall /\ result'.op = "preload_resources"
ReaderStep == result = NoCall /\ result'.op \in ReaderOps

\* Every entry of cache is an entry of cache2, with the same text.
Kept(cache, cache2) ==
    \A name \in DOMAIN cache : name \in DOMAIN cache2 /\ cache2[name] = cache[name]

(***************************************************************************)
(* C1                                                                      *)
(***************************************************************************)
\* C1, as stated: when preload_resources() has completed, read_file(name)
\* returns for every enumerated name the text of a direct uncached read of
\* that name from the tree.
C1_CacheCoherentAfterPreload ==
    (result.op = "preload_resources" /\ result.kind = "ok")
    => \A name \in EnumeratedNames(mode, resource_tree) : \A py \in PyVersions :
           read_file(_resource_cache, mode, resource_tree, py, name)
               = direct_read_text(mode, resource_tree, py, name)

\* C1, amended: when preload_resources() has completed, read_file(name)
\* returns the text of a direct uncached read for every enumerated name that
\* this call has added to the cache (a name cached before the call keeps the
\* text it had).
C1_NewEntriesCoherentAfterPreload ==
    [][(PreloadStep /\ result'.kind = "ok")
       => \A name \in EnumeratedNames(mode', resource_tree') \ DOMAIN _resource_cache :
          \A py \in PyVersions :
              read_file(_resource_cache', mode', resource_tree', py, name)
                  = direct_read_text(mode', resource_tree', py, name)]_vars

\* preload_resources() has completed and has cached html/log.html, read
\* from "b\r\n", as "b\n".
C1_Witness ==
    /\ result.op = "preload_resources" /\ result.kind = "ok"
    /\ node(resource_tree, html_log_html) = File(bytes_crlf)
    /\ html_log_html \in DOMAIN _resource_cache
    /\ _resource_cache[html_log_html] = <<98, 10>>

(***************************************************************************)
(* C2                                                                      *)
(***************************************************************************)
\* The name is neither a key of the cache nor an entry of the tree.
AbsentEverywhere(name) ==
    /\ name \notin DOMAIN _resource_cache
    /\ node(resource_tree, name).kind = "absent"

\* On the way to the name the tree has a file where a directory is needed.
ThroughAFile(tr, name) ==
    LET parts == split(name)
        prefix(i) == joinparts(SubSeq(parts, 1, i))
    IN  \E i \in 1..(Len(parts) - 1) :
            /\ node(tr, prefix(i)).kind = "file"
            /\ \A j \in 1..(i - 1) : node(tr, prefix(j)).kind = "dir"

C3_ReadersLeaveCacheUnchanged ==
    [][ReaderStep => _resource_cache' = _resource_cache]_vars

\* read_file has returned the text of a name that is no key of the cache.
C3_Witness ==
    /\ result.op = "read_file" /\ result.kind = "ok"
    /\ result.arg = html_log_html
    /\ result.arg \notin DOMAIN _resource_cache

(***************************************************************************)
(* C4                                                                      *)
(***************************************************************************)
\* The caches a run may have for the name: none, or any text cached for it.
CachesFor(name) ==
    {EmptyCache} \cup {(name :> decode(data)) : data \in {bytes_a, bytes_crlf}}

\* C4: the outcome of read_file_binary(name) is the one every other state of
\* the cache gives on the same tree, and for a file of the tree it is the
\* very bytes of the file.
C4_BinaryIndependentOfCache ==
    result.op = "read_file_binary"
    => /\ \E py \in PyVersions : \A cache \in CachesFor(result.arg) :
              LET r == read_file_binary(cache, mode, resource_tree, py, result.arg)
              IN  result.kind = r.kind /\ result.data = r.data
       /\ (~InvalidName(result.arg)
             /\ node(resource_tree, result.arg).kind = "file")
          => /\ result.kind = "ok"
             /\ result.data = node(resource_tree, result.arg).data

\* read_file_binary has returned the bytes of html/log.html while the cache
\* holds another text for that name.
C4_Witness ==
    /\ result.op = "read_file_binary" /\ result.kind = "ok"
    /\ result.arg = html_log_html
    /\ html_log_html \in DOMAIN _resource_cache
    /\ _resource_cache[html_log_html] = <<97>>
    /\ result.data = bytes_crlf

(***************************************************************************)
(* C5                                                                      *)
(***************************************************************************)
\* C5: a call of preload_resources leaves every name that is cached already
\* cached, with the text it had.
C5_PreloadKeepsCachedEntries ==
    [][PreloadStep => Kept(_resource_cache, _resource_cache')]_vars

\* preload_resources has completed with html/log.html cached from an
\* earlier call: the tree holds another text by now.
C5_Witness ==
    /\ result.op = "preload_resources" /\ result.kind = "ok"
    /\ node(resource_tree, html_log_html) = File(bytes_crlf)
    /\ html_log_html \in DOMAIN _resource_cache
    /\ _resource_cache[html_log_html] = <<97>>

(***************************************************************************)
(* C6                                                                      *)
(***************************************************************************)
ReadErrors ==
    {"FileNotFoundError", "NotADirectoryError", "IsADirectoryError",
     "UnicodeDecodeError", "KeyError"}

\* C6: every name _glob_resources yields is read by read_file and by
\* read_file_binary without an error, and preload_resources() never fails
\* reading a name it has enumerated.
C6_EnumeratedNamesResolve ==
    /\ (result.op = "_glob_resources" /\ result.kind = "ok")
       => \A name \in result.names : \A py \in PyVersions :
              /\ read_file(_resource_cache, mode, resource_tree, py, name).kind
                     = "ok"
              /\ read_file_binary(_resource_cache, mode, resource_tree, py,
                                  name).kind = "ok"
    /\ result.op = "preload_resources" => result.kind \notin ReadErrors

(***************************************************************************)
(* C7                                                                      *)
(***************************************************************************)
\* C7: for a name that is absolute or has a '..' piece, read_file and
\* read_file_binary fail with AssertionError and return nothing, in every
\* mode and every state of the cache; no such name is ever a key of the
\* cache.
C7_InvalidNamesNeverYieldContent ==
    /\ (result.op \in ReaderOps /\ InvalidName(result.arg))
       => result.kind = "AssertionError" /\ result.data = <<>>
    /\ \A name \in DOMAIN _resource_cache : ~InvalidName(name)

\* read_file of html/../html/log.html has failed with AssertionError while
\* html/log.html is cached.
C7_Witness ==
    /\ result.op = "read_file" /\ result.arg = html_pardir_html_log_html
    /\ result.kind = "AssertionError"
    /\ html_log_html \in DOMAIN _resource_cache

(***************************************************************************)
(* C8                                                                      *)
(***************************************************************************)
\* The files directly inside subdir whose name ends with ext.
FilesIn(tr, subdir, ext) ==
    {p \in DOMAIN tr :
        /\ tr[p].kind = "file"
        /\ Len(p) >= Len(subdir) + 1 + Len(ext)
        /\ SubSeq(p, 1, Len(subdir) + 1) = subdir \o <<sep>>
        /\ SubSeq(p, Len(p) - Len(ext) + 1, Len(p)) = ext
        /\ \A i \in (Len(subdir) + 2)..Len(p) : p[i] # sep}

ExpectedKeys(tr) ==
    FilesIn(tr, html, ext_html) \cup FilesIn(tr, javascript, ext_js)
    \cup FilesIn(tr, javascript_quirks, ext_js)

\* C8: a call of preload_resources() on an empty cache leaves as keys of the
\* cache exactly the files directly inside html ending in .html, directly
\* inside javascript ending in .js and directly inside javascript/quirks
\* ending in .js, each under its name relative to the root of the tree.
C8_PreloadCachesExactlyTheEnumerated ==
    [][(PreloadStep /\ _resource_cache = EmptyCache)
       => DOMAIN _resource_cache' = ExpectedKeys(resource_tree)]_vars

\* C8, where the code keeps it: the keys are those files whenever no read
\* of an enumerated name has failed.
C8_ExactlyTheEnumeratedUnlessAReadFails ==
    [][(PreloadStep /\ _resource_cache = EmptyCache
            /\ result'.kind \notin ReadErrors)
       => DOMAIN _resource_cache' = ExpectedKeys(resource_tree)]_vars

(***************************************************************************)
(* C9                                                                      *)
(***************************************************************************)
\* C9: the cache is empty at the start, and no step (no call of
\* preload_resources, read_file or read_file_binary, no change of the tree)
\* removes a key of the cache or changes the text cached for it.
C9_CacheIsWriteOncePerKey ==
    /\ _resource_cache = EmptyCache
    /\ [][Kept(_resource_cache, _resource_cache')]_vars

\* preload_resources() has run again after html/log.html, cached before, was
\* removed from the tree: the entry is still there.
C9_Witness ==
    /\ result.op = "preload_resources" /\ result.kind = "ok"
    /\ node(resource_tree, html_log_html).kind = "absent"
    /\ html_log_html \in DOMAIN _resource_cache
    /\ _resource_cache[html_log_html] = <<97>>

(***************************************************************************)
(* C10                                                                     *)
(***************************************************************************)
\* C10: for a subdirectory that is a directory of the tree and an extension
\* that starts with '.' and has no '*', _glob_resources yields the same
\* names on a directory-backed and on an archive-backed root.
C10_BackingsEnumerateAlike ==
    (result.op = "_glob_resources"
        /\ node(resource_tree, result.arg).kind = "dir"
        /\ startswith(result.ext, <<".">>) /\ ~contains(result.ext, "*"))
    => \A md \in Modes :
           LET g == _glob_resources(
                        resource_tree,
                        _resource_path(md, resource_tree, <<>>).path,
                        result.arg, result.ext)
           IN  g.kind = result.kind /\ g.names = result.names

====
